---------------------------- MODULE Spec2Model ----------------------------
(***************************************************************************)
(* Code-to-TXT: a model of src/src/tool/main.tsx (the second, current      *)
(* listing in that file, lines 131-901) and of the inclusion rules in      *)
(* src/src/rules.ts and src/src/rules.js.                                  *)
(*                                                                         *)
(* Strings that the code inspects character by character (endsWith,        *)
(* includes) are sequences of one-character strings.  A path is the        *)
(* sequence of its "/"-separated segments; the scan root "." is the empty  *)
(* sequence, which is what the code's                                      *)
(*     dirPath === "." ? child.filename : `${dirPath}/${child.filename}`   *)
(* makes of it.  Host file names contain no "/".                           *)
(***************************************************************************)
EXTENDS Integers, Sequences, FiniteSets, TLC

VARIABLES
    host,          \* the host file system behind replit.fs (fixed per run)
    scanning,      \* React state `scanning`
    scanPc,        \* where handleScan is suspended
    visitedDirs,   \* visitedDirs.current
    allFiles,      \* handleScan's collector `allFiles`
    stack,         \* the suspended readDirectoryRecursive activations
    dirCall,       \* the readDir call in flight (at most one)
    dirCalls,      \* the readDir calls of this scan and what each returned
                   \* (history, for stating claims)
    tasks,         \* the processOneFile promises of the current batch
    rootTree,      \* React state `rootTree`
    selectedMap,   \* React state `selectedMap`
    logs,          \* React state `logs`
    hasScanned,    \* React state `hasScanned`
    generating,    \* React state `generating`
    genPc,         \* where handleGenerate is suspended
    genTree,       \* the rootTree handleGenerate closed over
    genSel,        \* the selectedMap handleGenerate closed over
    tocLines,      \* handleGenerate's tocLines
    combined,      \* handleGenerate's `combined`, one entry per block
    genQueue,      \* the files gatherSelectedContent has still to visit
    notices,       \* replit.messages.showNotice / showError calls, in order
    written,       \* what replit.fs.writeFile stored, in order
    lastOp,        \* the handler that ran last (history, for stating claims)
    policyFile,    \* which rules module is under test
    policyIn,      \* the path handed to shouldIncludeFile
    policyOut      \* its result, once computed

scanVars == <<scanning, scanPc, visitedDirs, allFiles, stack, dirCall,
              dirCalls, tasks>>
sessVars == <<rootTree, selectedMap, logs, hasScanned>>
genVars == <<generating, genPc, genTree, genSel, tocLines, combined, genQueue,
             notices, written>>
ruleVars == <<policyFile, policyIn, policyOut>>
vars == <<host, scanVars, sessVars, genVars, lastOp, ruleVars>>

---------------------------------------------------------------------------
(* Bounds of the model *)

\* longest path, in segments, handed to shouldIncludeFile
MaxDepth == 3
\* longest record list handed to buildTree
MaxRecords == 3
\* largest line count a utf8 read reports
MaxLines == 2
\* longest directory path, in segments, readDir is called for: a host whose
\* listings loop hands out longer and longer paths without end
MaxPath == 3

---------------------------------------------------------------------------
(* Strings *)

\* the characters of every file and directory name the model uses
Chars(name) ==
    CASE name = "a" -> <<"a">>
      [] name = "b" -> <<"b">>
      [] name = "src" -> <<"s", "r", "c">>
      [] name = "x.ts" -> <<"x", ".", "t", "s">>
      [] name = "y.ts" -> <<"y", ".", "t", "s">>
      [] name = "r.md" -> <<"r", ".", "m", "d">>
      [] name = "p.png" -> <<"p", ".", "p", "n", "g">>
      [] name = "p.jpg" -> <<"p", ".", "j", "p", "g">>
      [] name = "p.jpeg" -> <<"p", ".", "j", "p", "e", "g">>
      [] name = "p.gif" -> <<"p", ".", "g", "i", "f">>
      [] name = "p.webp" -> <<"p", ".", "w", "e", "b", "p">>
      [] name = "p.pdf" -> <<"p", ".", "p", "d", "f">>
      [] name = "p.mp4" -> <<"p", ".", "m", "p", "4">>
      [] name = "p.mp3" -> <<"p", ".", "m", "p", "3">>
      [] name = "p.zip" -> <<"p", ".", "z", "i", "p">>
      [] name = "dist" -> <<"d", "i", "s", "t">>
      [] name = "mydist" -> <<"m", "y", "d", "i", "s", "t">>
      [] name = "distro" -> <<"d", "i", "s", "t", "r", "o">>
      [] name = "constructor" ->
            <<"c", "o", "n", "s", "t", "r", "u", "c", "t", "o", "r">>
      [] name = "node_modules" ->
            <<"n", "o", "d", "e", "_", "m", "o", "d", "u", "l", "e", "s">>
      [] name = "package-lock.json" ->
            <<"p", "a", "c", "k", "a", "g", "e", "-", "l", "o", "c", "k",
              ".", "j", "s", "o", "n">>

\* String.prototype.endsWith
EndsWith(s, suffix) ==
    /\ Len(s) >= Len(suffix)
    /\ SubSeq(s, Len(s) - Len(suffix) + 1, Len(s)) = suffix

\* String.prototype.includes
Includes(s, sub) ==
    \E i \in 1..(Len(s) - Len(sub) + 1) : SubSeq(s, i, i + Len(sub) - 1) = sub

\* the path string: the segments' characters joined with "/"
RECURSIVE PathString(_)
PathString(path) ==
    IF path = <<>> THEN <<>>
    ELSE IF Len(path) = 1 THEN Chars(path[1])
    ELSE Chars(path[1]) \o <<"/">> \o PathString(Tail(path))

---------------------------------------------------------------------------
(* src/src/rules.ts and src/src/rules.js *)

\* rules.ts: AUTO_SELECT_EXTS; rules.js: ALLOWED_EXTENSIONS (the same list)
AUTO_SELECT_EXTS ==
    { <<".", "j", "s">>, <<".", "j", "s", "x">>, <<".", "t", "s">>,
      <<".", "t", "s", "x">>, <<".", "p", "y">>, <<".", "j", "s", "o", "n">>,
      <<".", "h", "t", "m", "l">>, <<".", "c", "s", "s">> }

ALLOWED_EXTENSIONS == AUTO_SELECT_EXTS

\* rules.js: IGNORED_DIRS
IGNORED_DIRS ==
    { <<"n", "o", "d", "e", "_", "m", "o", "d", "u", "l", "e", "s">>,
      <<".", "g", "i", "t">>,
      <<"_", "_", "p", "y", "c", "a", "c", "h", "e", "_", "_">>,
      <<".", "v", "e", "n", "v">>, <<"v", "e", "n", "v">>,
      <<"d", "i", "s", "t">>, <<"b", "u", "i", "l", "d">>,
      <<".", "n", "e", "x", "t">> }

PackageLock ==
    <<"p", "a", "c", "k", "a", "g", "e", "-", "l", "o", "c", "k",
      ".", "j", "s", "o", "n">>

\* rules.ts, shouldIncludeFile: no directory rule at all
shouldIncludeFile(path) ==
    LET s == PathString(path) IN
    IF EndsWith(s, PackageLock) THEN FALSE
    ELSE \E ext \in AUTO_SELECT_EXTS : EndsWith(s, ext)

\* rules.js, shouldIncludeFile: path.includes(`${dir}/`), then the extension
shouldIncludeFileJs(path) ==
    LET s == PathString(path) IN
    IF \E dir \in IGNORED_DIRS : Includes(s, dir \o <<"/">>) THEN FALSE
    ELSE \E ext \in ALLOWED_EXTENSIONS : EndsWith(s, ext)

\* the rule of the module under test
Decide(file, path) ==
    IF file = "rules.ts" THEN shouldIncludeFile(path)
    ELSE shouldIncludeFileJs(path)

---------------------------------------------------------------------------
(* BUILD TREE: src/src/tool/main.tsx, buildTree *)

\* Names that a plain object ({}) already answers to through
\* Object.prototype; "constructor" stands for them all (toString, valueOf,
\* hasOwnProperty, ...).  `root` and every `__children` are plain objects, so
\* `curr[part]` is truthy for such a part although no node was ever stored.
ProtoNames == {"constructor"}

EmptyObj == <<>>

\* position of the own key `name` in an object (kept in insertion order,
\* which is the order Object.keys gives for names that are not integers)
KeyIndex(obj, name) ==
    IF \E i \in 1..Len(obj) : obj[i].name = name
    THEN CHOOSE i \in 1..Len(obj) : obj[i].name = name
    ELSE 0

\* one record through the `for (let i = 0; i < parts.length; i++)` loop,
\* for a record on which the loop does not throw
RECURSIVE InsertParts(_, _, _)
InsertParts(obj, parts, lc) ==
    LET part == Head(parts)
        isLastPart == Len(parts) = 1
        idx == KeyIndex(obj, part)
        created == IF idx = 0
                   THEN [name |-> part, isDir |-> TRUE, lineCount |-> 0,
                         children |-> EmptyObj]
                   ELSE obj[idx]
        marked == IF isLastPart
                  THEN [created EXCEPT !.isDir = FALSE, !.lineCount = lc]
                  ELSE created
        walked == IF isLastPart THEN marked
                  ELSE [marked EXCEPT
                          !.children = InsertParts(marked.children, Tail(parts), lc)]
    IN  IF part \in ProtoNames
        THEN obj    \* curr[part] is the inherited value: nothing is stored
        ELSE IF idx = 0 THEN Append(obj, walked)
             ELSE [obj EXCEPT ![idx] = walked]

\* the loop throws a TypeError when a part that is not the last is an
\* inherited name: curr becomes (inherited).__children, which is undefined,
\* and the next curr[part] reads a property of undefined
InsertThrows(parts) ==
    \E i \in 1..(Len(parts) - 1) : parts[i] \in ProtoNames

RECURSIVE BuildRoot(_, _)
BuildRoot(files, k) ==
    IF k = 0 THEN EmptyObj
    ELSE InsertParts(BuildRoot(files, k - 1), files[k].path, files[k].lineCount)

\* the order of characters localeCompare sorts the model's names by
Alphabet ==
    <<"_", "-", ".", "a", "b", "c", "d", "e", "f", "g", "h", "i", "j", "k",
      "l", "m", "n", "o", "p", "q", "r", "s", "t", "u", "v", "w", "x", "y",
      "z">>

CharRank(c) == CHOOSE i \in 1..Len(Alphabet) : Alphabet[i] = c

\* a.localeCompare(b) on character sequences: negative, zero or positive
RECURSIVE CompareChars(_, _)
CompareChars(s, t) ==
    IF s = <<>> /\ t = <<>> THEN 0
    ELSE IF s = <<>> THEN -1
    ELSE IF t = <<>> THEN 1
    ELSE IF CharRank(Head(s)) < CharRank(Head(t)) THEN -1
    ELSE IF CharRank(Head(s)) > CharRank(Head(t)) THEN 1
    ELSE CompareChars(Tail(s), Tail(t))

localeCompare(a, b) == CompareChars(Chars(a), Chars(b))

\* the comparator handed to out.sort
\* variant of the comparator: files by ascending lineCount
SortCompareAscending(a, b) ==
    IF a.isDir /\ ~b.isDir THEN -1
    ELSE IF ~a.isDir /\ b.isDir THEN 1
    ELSE IF ~a.isDir /\ ~b.isDir THEN a.lineCount - b.lineCount
    ELSE localeCompare(a.name, b.name)

SortCompare(a, b) ==
    IF a.isDir /\ ~b.isDir THEN -1
    ELSE IF ~a.isDir /\ b.isDir THEN 1
    ELSE IF ~a.isDir /\ ~b.isDir THEN b.lineCount - a.lineCount
    ELSE localeCompare(a.name, b.name)

\* variant of an unstable sort: x goes in front of what compares equal
InsertBeforeEquals(sorted, x) ==
    LET later == {i \in 1..Len(sorted) : SortCompare(sorted[i], x) >= 0}
        pos == IF later = {} THEN Len(sorted) + 1
               ELSE CHOOSE i \in later : \A j \in later : i <= j
    IN  SubSeq(sorted, 1, pos - 1) \o <<x>> \o SubSeq(sorted, pos, Len(sorted))

\* Array.prototype.sort is stable: x goes behind everything that does not
\* compare greater than it
InsertSorted(sorted, x) ==
    LET later == {i \in 1..Len(sorted) : SortCompare(sorted[i], x) > 0}
        pos == IF later = {} THEN Len(sorted) + 1
               ELSE CHOOSE i \in later : \A j \in later : i <= j
    IN  SubSeq(sorted, 1, pos - 1) \o <<x>> \o SubSeq(sorted, pos, Len(sorted))

RECURSIVE SortNodes(_, _)
SortNodes(out, k) ==
    IF k = 0 THEN <<>> ELSE InsertSorted(SortNodes(out, k - 1), out[k])

\* toTreeNodes(obj, prefix): the nodes of one object, sorted
RECURSIVE toTreeNodes(_, _)
toTreeNodes(obj, prefix) ==
    LET nodeOf(e) ==
            IF e.isDir
            THEN [name |-> e.name, path |-> Append(prefix, e.name),
                  isDir |-> TRUE, lineCount |-> 0,
                  children |-> toTreeNodes(e.children, Append(prefix, e.name))]
            ELSE [name |-> e.name, path |-> Append(prefix, e.name),
                  isDir |-> FALSE, lineCount |-> e.lineCount,
                  children |-> <<>>]
        out == [i \in 1..Len(obj) |-> nodeOf(obj[i])]
    IN  SortNodes(out, Len(out))

buildTreeThrows(files) ==
    \E k \in 1..Len(files) : InsertThrows(files[k].path)

\* buildTree(allFiles), when it returns: the children of the "." wrapper
buildTree(files) == toTreeNodes(BuildRoot(files, Len(files)), <<>>)

---------------------------------------------------------------------------
(* selection and counting: main.tsx, folderHasAnySelected and COUNT UTILS *)

\* selectedMap[path] as a condition: a missing key is undefined, falsy
Sel(sel, path) == path \in DOMAIN sel /\ sel[path]

\* variant that looks at the direct children only
folderHasDirectSelected(node, sel) ==
    node.isDir /\ \E i \in 1..Len(node.children) :
        ~node.children[i].isDir /\ Sel(sel, node.children[i].path)

RECURSIVE folderHasAnySelected(_, _)
folderHasAnySelected(node, sel) ==
    IF ~node.isDir THEN FALSE
    ELSE \E i \in 1..Len(node.children) :
            IF ~node.children[i].isDir
            THEN Sel(sel, node.children[i].path)
            ELSE folderHasAnySelected(node.children[i], sel)

RECURSIVE countFiles(_)
RECURSIVE SumFiles(_, _)
countFiles(folder) ==
    IF ~folder.isDir THEN 1
    ELSE SumFiles(folder.children, Len(folder.children))
\* the `sum +=` loop over the first k children
SumFiles(nodes, k) ==
    IF k = 0 THEN 0 ELSE SumFiles(nodes, k - 1) + countFiles(nodes[k])

RECURSIVE countSelected(_, _)
RECURSIVE SumSelected(_, _, _)
countSelected(folder, selMap) ==
    IF ~folder.isDir THEN (IF Sel(selMap, folder.path) THEN 1 ELSE 0)
    ELSE SumSelected(folder.children, Len(folder.children), selMap)
\* the `sum +=` loop over the first k children
SumSelected(nodes, k, selMap) ==
    IF k = 0 THEN 0
    ELSE SumSelected(nodes, k - 1, selMap) + countSelected(nodes[k], selMap)

\* NodeItem, the folder branch: the three derived flags
isAllSelected(node, sel) == countSelected(node, sel) = countFiles(node)
isNoneSelected(node, sel) == countSelected(node, sel) = 0
isPartial(node, sel) == ~isAllSelected(node, sel) /\ ~isNoneSelected(node, sel)

\* every node of a forest, in preorder
RECURSIVE Preorder(_)
RECURSIVE PreorderList(_, _)
Preorder(node) ==
    <<node>> \o (IF node.isDir THEN PreorderList(node.children, 1) ELSE <<>>)
PreorderList(nodes, k) ==
    IF k > Len(nodes) THEN <<>>
    ELSE Preorder(nodes[k]) \o PreorderList(nodes, k + 1)

AllNodes(tree) ==
    LET all == PreorderList(tree, 1) IN {all[i] : i \in 1..Len(all)}

\* findNode(nodes, searchPath): the first match in preorder, or none
findNode(nodes, searchPath) ==
    LET all == PreorderList(nodes, 1)
        hits == {i \in 1..Len(all) : all[i].path = searchPath}
    IN  IF hits = {} THEN <<>>
        ELSE <<all[CHOOSE i \in hits : \A j \in hits : i <= j]>>

\* variant that does not descend into subfolders
setDirectFilesOnly(n) == IF n.isDir THEN {} ELSE {n.path}

\* setAllFilesRec over a list of nodes: the file paths it assigns
RECURSIVE setAllFilesRec(_)
setAllFilesRec(n) ==
    IF n.isDir
    THEN UNION {setAllFilesRec(n.children[i]) : i \in 1..Len(n.children)}
    ELSE {n.path}

\* variant that sets every entry of the map, not only the folder's files
handleToggleFolderEverywhere(tree, sel, folderPath, newVal) ==
    LET found == findNode(tree, folderPath) IN
    IF found = <<>> \/ ~found[1].isDir THEN sel
    ELSE LET touched == UNION {setAllFilesRec(found[1].children[i]) :
                                 i \in 1..Len(found[1].children)}
         IN  [p \in (DOMAIN sel) \cup touched |-> newVal]

\* handleToggleFolder(folderPath, newVal): the map it sets
handleToggleFolder(tree, sel, folderPath, newVal) ==
    LET found == findNode(tree, folderPath) IN
    IF found = <<>> \/ ~found[1].isDir THEN sel
    ELSE LET touched == UNION {setAllFilesRec(found[1].children[i]) :
                                 i \in 1..Len(found[1].children)}
         IN  [p \in (DOMAIN sel) \cup touched |->
                 IF p \in touched THEN newVal ELSE sel[p]]

---------------------------------------------------------------------------
(* GENERATE: main.tsx, handleGenerate, the synchronous part *)

\* the two branch glyphs, in ASCII: the code's are U+2514 U+2500 and
\* U+251C U+2500, each followed by a space
LastBranch == "L- "
MidBranch == "|- "

\* a child passes the filter that computes subCount
CountsAsVisible(c, sel) ==
    IF c.isDir THEN folderHasAnySelected(c, sel) ELSE Sel(sel, c.path)

\* buildSelectedTreeText(node, prefix, isLast): the lines it pushes.  A line
\* is prefix + branch + name (+ " (<lineCount> lines)" for a file); `path`
\* is not printed, it records which node the line is for.
RECURSIVE buildSelectedTreeText(_, _, _, _)
RECURSIVE TextOfChildren(_, _, _, _, _)
buildSelectedTreeText(node, prefix, isLast, sel) ==
    IF ~node.isDir /\ ~Sel(sel, node.path) THEN <<>>
    ELSE IF node.isDir /\ ~folderHasAnySelected(node, sel) THEN <<>>
    ELSE LET line == [prefix |-> prefix,
                      branch |-> IF isLast THEN LastBranch ELSE MidBranch,
                      name |-> node.name,
                      isDir |-> node.isDir,
                      lineCount |-> node.lineCount,
                      path |-> node.path]
             subCount == Cardinality({i \in 1..Len(node.children) :
                             CountsAsVisible(node.children[i], sel)})
             childPrefix == Append(prefix, IF isLast THEN "   " ELSE "|  ")
         IN  IF node.isDir
             THEN <<line>> \o TextOfChildren(node.children, 1, subCount,
                                             childPrefix, sel)
             ELSE <<line>>
\* node.children.forEach((child, idx) => ...): idx is k - 1
TextOfChildren(children, k, subCount, childPrefix, sel) ==
    IF k > Len(children) THEN <<>>
    ELSE buildSelectedTreeText(children[k], childPrefix,
                               (k - 1) = subCount - 1, sel)
         \o TextOfChildren(children, k + 1, subCount, childPrefix, sel)

\* rootTree.forEach((node, i) => buildSelectedTreeText(node, "", i === last))
RECURSIVE TextOfRoots(_, _, _)
TextOfRoots(tree, k, sel) ==
    IF k > Len(tree) THEN <<>>
    ELSE buildSelectedTreeText(tree[k], <<>>, (k - 1) = Len(tree) - 1, sel)
         \o TextOfRoots(tree, k + 1, sel)

buildToc(tree, sel) == TextOfRoots(tree, 1, sel)

\* gatherSelectedContent over the whole tree: the files it reads, in order
\* variant that gathers every file, selected or not
gatherEveryFile(node, sel) ==
    LET all == Preorder(node)
        files == SelectSeq(all, LAMBDA n : ~n.isDir)
    IN  [i \in 1..Len(files) |-> files[i].path]

RECURSIVE gatherSelectedContent(_, _)
RECURSIVE GatherList(_, _, _)
gatherSelectedContent(node, sel) ==
    IF node.isDir THEN GatherList(node.children, 1, sel)
    ELSE IF Sel(sel, node.path) THEN <<node.path>>
    ELSE <<>>
GatherList(nodes, k, sel) ==
    IF k > Len(nodes) THEN <<>>
    ELSE gatherSelectedContent(nodes[k], sel) \o GatherList(nodes, k + 1, sel)

---------------------------------------------------------------------------
(* CONFIG: main.tsx lines 142-160 *)

SKIP_DIRS ==
    {"node_modules", ".git", ".cache", ".venv", "venv", "dist", "build",
     ".pythonlibs", "lib64"}

SKIP_FILE_EXTS ==
    { <<".", "p", "n", "g">>, <<".", "j", "p", "g">>,
      <<".", "j", "p", "e", "g">>, <<".", "g", "i", "f">>,
      <<".", "w", "e", "b", "p">>, <<".", "p", "d", "f">>,
      <<".", "m", "p", "4">>, <<".", "m", "p", "3">>, <<".", "z", "i", "p">> }

MAX_CONCURRENT_READS == 10
MAX_BASE64_BYTES == 2000000

---------------------------------------------------------------------------
(* The host behind replit.fs.  A host is fixed for a run; which of its calls
   report an error is decided call by call. *)

Dir(name) == [filename |-> name, type |-> "DIRECTORY"]
File(name) == [filename |-> name, type |-> "FILE"]

Hosts == {"plain", "duplicates", "skipped", "inherited", "wide", "loop"}

\* on the host "loop" the directory a holds a link named a to itself: every
\* path a, a/a, a/a/a, ... is a directory with the same listing
OnLoop(path) == \A i \in 1..Len(path) : path[i] = "a"

\* readDir(path).children on each host; a path not listed here has no
\* listing, and readDir reports an error for it
Listing(h, path) ==
    CASE h = "plain" /\ path = <<>> ->
            <<Dir("a"), File("x.ts"), File("r.md")>>
      [] h = "plain" /\ path = <<"a">> -> <<File("y.ts"), File("x.ts")>>
      [] h = "duplicates" /\ path = <<>> ->
            <<File("x.ts"), Dir("a"), File("x.ts"), Dir("a")>>
      [] h = "duplicates" /\ path = <<"a">> -> <<File("y.ts")>>
      [] h = "skipped" /\ path = <<>> ->
            <<Dir("dist"), Dir("mydist"), File("p.png")>>
      [] h = "skipped" /\ path = <<"dist">> -> <<File("x.ts")>>
      [] h = "skipped" /\ path = <<"mydist">> -> <<File("x.ts")>>
      [] h = "inherited" /\ path = <<>> -> <<Dir("a"), File("r.md")>>
      [] h = "inherited" /\ path = <<"a">> -> <<File("constructor")>>
      [] h = "wide" /\ path = <<>> ->
            <<Dir("a"), File("x.ts"), File("p.png"), File("p.jpg"), File("p.jpeg"),
              File("p.gif"), File("p.webp"), File("p.pdf"), File("p.mp4"),
              File("p.mp3"), File("y.ts"), File("p.zip"), File("r.md")>>
      [] h = "loop" /\ OnLoop(path) -> <<Dir("a")>>
      [] OTHER -> <<>>

HasListing(h, path) ==
    \/ h = "plain" /\ path \in {<<>>, <<"a">>}
    \/ h = "duplicates" /\ path \in {<<>>, <<"a">>}
    \/ h = "skipped" /\ path \in {<<>>, <<"dist">>, <<"mydist">>}
    \/ h = "inherited" /\ path \in {<<>>, <<"a">>}
    \/ h = "wide" /\ path = <<>>
    \/ h = "loop" /\ OnLoop(path)

\* the length of the base64 content readFile(path, "base64") returns
B64Length(h, path) ==
    CASE h = "plain" /\ path = <<"r.md">> -> MAX_BASE64_BYTES + 1
      [] h = "plain" /\ path = <<"a", "y.ts">> -> MAX_BASE64_BYTES + 1
      [] h = "plain" /\ path = <<"x.ts">> -> MAX_BASE64_BYTES
      [] h = "skipped" /\ path = <<"p.png">> -> MAX_BASE64_BYTES + 1
      [] h = "wide" /\ path \in {<<"y.ts">>, <<"r.md">>} ->
            MAX_BASE64_BYTES + 1
      [] OTHER -> 0

\* content.split("\n").length of the utf8 content readFile returns
LineCount(h, path) ==
    IF h = "plain" /\ path = <<"x.ts">> THEN 2 ELSE 1

---------------------------------------------------------------------------
(* SCAN LOGIC: main.tsx lines 227-314 *)

Last(seq) == seq[Len(seq)]

\* variant that also skips a directory whose name holds a skip name
shouldSkipDirContaining(dirPath) ==
    IF dirPath = <<>> THEN FALSE
    ELSE \/ Last(dirPath) \in SKIP_DIRS
         \/ \E skip \in {"dist", "node_modules"} :
               Includes(Chars(Last(dirPath)), Chars(skip))

shouldSkipDir(dirPath) ==
    IF dirPath = <<>> THEN FALSE ELSE Last(dirPath) \in SKIP_DIRS

shouldSkipFile(filePath) ==
    \E ext \in SKIP_FILE_EXTS : EndsWith(PathString(filePath), ext)

\* b64Content.length > MAX_BASE64_BYTES
\* variant with the ceiling one higher
IsOversizedAboveNext(length) == length > MAX_BASE64_BYTES + 1

IsOversized(length) == length > MAX_BASE64_BYTES

\* the `for (const child of children)` loop: full paths of one type, in order
RECURSIVE ChildPaths(_, _, _)
ChildPaths(dirPath, children, type) ==
    IF children = <<>> THEN <<>>
    ELSE (IF Head(children).type = type
          THEN <<Append(dirPath, Head(children).filename)>>
          ELSE <<>>)
         \o ChildPaths(dirPath, Tail(children), type)

\* child.type === "DIRECTORY" goes to dirs, anything else to filesToRead
RECURSIVE OtherPaths(_, _)
OtherPaths(dirPath, children) ==
    IF children = <<>> THEN <<>>
    ELSE (IF Head(children).type # "DIRECTORY"
          THEN <<Append(dirPath, Head(children).filename)>>
          ELSE <<>>)
         \o OtherPaths(dirPath, Tail(children))

Line(kind, path) == <<kind, path>>

\* `Discovered ${allFiles.length} file(s). Building tree...`
Discovered(n) == <<"Discovered", <<>>, n>>

\* the log lines processOneFile appends before its first await
RECURSIVE SkipLines(_)
SkipLines(slice) ==
    IF slice = <<>> THEN <<>>
    ELSE (IF shouldSkipFile(Head(slice))
          THEN <<Line("Skipping file (extension)", Head(slice))>>
          ELSE <<>>)
         \o SkipLines(Tail(slice))

Min(a, b) == IF a < b THEN a ELSE b

EmptyMap == [p \in {} |-> FALSE]

\* variant that takes every file that is left as one batch
SliceToEnd(filesToRead, i) == SubSeq(filesToRead, i + 1, Len(filesToRead))

\* filesToRead.slice(i, i + MAX_CONCURRENT_READS), i counted from 0
Slice(filesToRead, i) ==
    SubSeq(filesToRead, i + 1,
           Min(i + MAX_CONCURRENT_READS, Len(filesToRead)))

---------------------------------------------------------------------------
(* SCAN: handleScan, readDirectoryRecursive, processOneFile as steps.  One
   action is one run of the code between two awaits of a host call. *)

Op(op, path, val) == [op |-> op, path |-> path, val |-> val]

\* one readDir call and its result: "pending", "error", "none" (no children)
\* or "listed"
Call(path, result) == [path |-> path, result |-> result]

Returned(calls, result) == [calls EXCEPT ![Len(calls)].result = result]

\* variant that starts a scan on top of the session it finds
ScanStartKeeping ==
    /\ scanPc = "idle"
    /\ ~scanning
    /\ scanning' = TRUE
    /\ logs' = Append(logs, Line("Scanning codebase", <<>>))
    /\ visitedDirs' = {<<>>}
    /\ allFiles' = <<>>
    /\ stack' = <<>>
    /\ tasks' = <<>>
    /\ dirCall' = <<(<<>>)>>
    /\ dirCalls' = <<Call(<<>>, "pending")>>
    /\ scanPc' = "dir"
    /\ lastOp' = Op("handleScan", <<>>, FALSE)
    /\ UNCHANGED <<host, rootTree, selectedMap, hasScanned, genVars, ruleVars>>

\* handleScan up to the await of readDir("."): the button is disabled while
\* `scanning`; readDirectoryRecursive(".") marks "." visited, does not skip it
ScanStart ==
    /\ scanPc = "idle"
    /\ ~scanning
    /\ scanning' = TRUE
    /\ rootTree' = <<>>
    /\ selectedMap' = EmptyMap
    /\ logs' = <<Line("Scanning codebase", <<>>)>>
    /\ visitedDirs' = {<<>>}
    /\ allFiles' = <<>>
    /\ stack' = <<>>
    /\ tasks' = <<>>
    /\ dirCall' = <<(<<>>)>>
    /\ dirCalls' = <<Call(<<>>, "pending")>>
    /\ scanPc' = "dir"
    /\ lastOp' = Op("handleScan", <<>>, FALSE)
    /\ UNCHANGED <<host, hasScanned, genVars, ruleVars>>

\* where a returning readDirectoryRecursive resumes: its caller's loop over
\* dirs, or handleScan when it was the call for "."
Resume(st) == IF st = <<>> THEN "finish" ELSE "step"

\* readDir returns: an error, no children, or the listing
ReadDirReturn ==
    /\ scanPc = "dir"
    /\ LET dirPath == dirCall[1] IN
       \/ /\ logs' = Append(logs, Line("readDir error", dirPath))
          /\ dirCalls' = Returned(dirCalls, "error")
          /\ scanPc' = Resume(stack)
          /\ UNCHANGED stack
       \/ /\ dirCalls' = Returned(dirCalls, "none")
          /\ scanPc' = Resume(stack)
          /\ UNCHANGED <<logs, stack>>
       \/ /\ HasListing(host, dirPath)
          /\ dirCalls' = Returned(dirCalls, "listed")
          /\ LET children == Listing(host, dirPath) IN
             stack' = Append(stack,
                         [dirPath |-> dirPath,
                          dirs |-> ChildPaths(dirPath, children, "DIRECTORY"),
                          filesToRead |-> OtherPaths(dirPath, children),
                          i |-> 0])
          /\ scanPc' = "step"
          /\ UNCHANGED logs
    /\ dirCall' = <<>>
    /\ UNCHANGED <<host, scanning, visitedDirs, allFiles, tasks, rootTree,
                   selectedMap, hasScanned, genVars, lastOp, ruleVars>>

\* the top activation goes on: the next subdirectory, the next batch of
\* files, or its return
ScanStep ==
    /\ scanPc = "step"
    /\ stack # <<>>
    /\ LET top == Len(stack)
           fr == stack[top]
       IN
       IF fr.dirs # <<>>
       THEN LET d == Head(fr.dirs) IN
            /\ stack' = [stack EXCEPT ![top].dirs = Tail(fr.dirs)]
            /\ visitedDirs' = visitedDirs \cup {d}
            /\ tasks' = tasks
            /\ IF d \in visitedDirs
               THEN UNCHANGED <<logs, dirCall, dirCalls, scanPc>>
               ELSE IF shouldSkipDir(d)
               THEN /\ logs' = Append(logs, Line("Skipping dir", d))
                    /\ UNCHANGED <<dirCall, dirCalls, scanPc>>
               ELSE /\ Len(d) <= MaxPath
                    /\ dirCall' = <<d>>
                    /\ dirCalls' = Append(dirCalls, Call(d, "pending"))
                    /\ scanPc' = "dir"
                    /\ UNCHANGED logs
       ELSE IF fr.i < Len(fr.filesToRead)
       THEN LET slice == Slice(fr.filesToRead, fr.i) IN
            /\ tasks' = [k \in 1..Len(slice) |->
                           [path |-> slice[k],
                            pc |-> IF shouldSkipFile(slice[k])
                                   THEN "done" ELSE "base64"]]
            /\ logs' = logs \o SkipLines(slice)
            /\ stack' = [stack EXCEPT ![top].i = fr.i + MAX_CONCURRENT_READS]
            /\ scanPc' = "batch"
            /\ UNCHANGED <<visitedDirs, dirCall, dirCalls>>
       ELSE /\ stack' = SubSeq(stack, 1, top - 1)
            /\ scanPc' = Resume(SubSeq(stack, 1, top - 1))
            /\ UNCHANGED <<visitedDirs, dirCall, dirCalls, tasks, logs>>
    /\ UNCHANGED <<host, scanning, allFiles, rootTree, selectedMap,
                   hasScanned, genVars, lastOp, ruleVars>>

\* processOneFile after its base64 read: the result is an error, the call
\* throws (the catch logs it), or the content comes back
TaskBase64Return(k) ==
    /\ scanPc = "batch"
    /\ tasks[k].pc = "base64"
    /\ LET filePath == tasks[k].path IN
       \/ /\ \E kind \in {"Failed base64 read", "Error reading file"} :
                logs' = Append(logs, Line(kind, filePath))
          /\ tasks' = [tasks EXCEPT ![k].pc = "done"]
       \/ IF IsOversized(B64Length(host, filePath))
          THEN /\ logs' = Append(logs, Line("Skipping large file", filePath))
               /\ tasks' = [tasks EXCEPT ![k].pc = "done"]
          ELSE /\ tasks' = [tasks EXCEPT ![k].pc = "utf8"]
               /\ UNCHANGED logs
    /\ UNCHANGED <<host, scanning, scanPc, visitedDirs, allFiles, stack,
                   dirCall, dirCalls, rootTree, selectedMap, hasScanned,
                   genVars, lastOp, ruleVars>>

\* variant in which a failed utf8 read empties the collector
TaskUtf8ReturnLosing(k) ==
    /\ scanPc = "batch"
    /\ tasks[k].pc = "utf8"
    /\ LET filePath == tasks[k].path IN
       \/ /\ \E kind \in {"Failed utf8 read", "Error reading file"} :
                logs' = Append(logs, Line(kind, filePath))
          /\ allFiles' = <<>>
       \/ /\ allFiles' = Append(allFiles,
                            [path |-> filePath,
                             lineCount |-> LineCount(host, filePath)])
          /\ UNCHANGED logs
    /\ tasks' = [tasks EXCEPT ![k].pc = "done"]
    /\ UNCHANGED <<host, scanning, scanPc, visitedDirs, stack, dirCall,
                   dirCalls, rootTree, selectedMap, hasScanned, genVars,
                   lastOp, ruleVars>>

\* processOneFile after its utf8 read
TaskUtf8Return(k) ==
    /\ scanPc = "batch"
    /\ tasks[k].pc = "utf8"
    /\ LET filePath == tasks[k].path IN
       \/ /\ \E kind \in {"Failed utf8 read", "Error reading file"} :
                logs' = Append(logs, Line(kind, filePath))
          /\ UNCHANGED allFiles
       \/ /\ allFiles' = Append(allFiles,
                            [path |-> filePath,
                             lineCount |-> LineCount(host, filePath)])
          /\ UNCHANGED logs
    /\ tasks' = [tasks EXCEPT ![k].pc = "done"]
    /\ UNCHANGED <<host, scanning, scanPc, visitedDirs, stack, dirCall,
                   dirCalls, rootTree, selectedMap, hasScanned, genVars,
                   lastOp, ruleVars>>

\* Promise.all settles once every task of the batch has
BatchDone ==
    /\ scanPc = "batch"
    /\ \A k \in 1..Len(tasks) : tasks[k].pc = "done"
    /\ tasks' = <<>>
    /\ scanPc' = "step"
    /\ UNCHANGED <<host, scanning, visitedDirs, allFiles, stack, dirCall,
                   dirCalls, sessVars, genVars, lastOp, ruleVars>>

\* the `for (const f of allFiles) newSel[f.path] = shouldIncludeFile(f.path)`
AutoSelect(file, files) ==
    [p \in {files[k].path : k \in 1..Len(files)} |-> Decide(file, p)]

\* handleScan after readDirectoryRecursive(".") returned: lines 396-413
ScanFinish ==
    /\ scanPc = "finish"
    /\ IF buildTreeThrows(allFiles)
       THEN /\ logs' = logs \o <<Discovered(Len(allFiles)),
                                 Line("Error scanning codebase", <<>>)>>
            /\ UNCHANGED <<rootTree, selectedMap, hasScanned>>
       ELSE /\ logs' = logs \o <<Discovered(Len(allFiles)),
                                 Line("Scan complete.", <<>>)>>
            /\ rootTree' = buildTree(allFiles)
            /\ selectedMap' = AutoSelect(policyFile, allFiles)
            /\ hasScanned' = TRUE
    /\ scanning' = FALSE
    /\ scanPc' = "idle"
    /\ allFiles' = <<>>
    /\ lastOp' = Op("scanned", <<>>, FALSE)
    /\ UNCHANGED <<host, visitedDirs, stack, dirCall, dirCalls, tasks,
                   genVars, ruleVars>>

---------------------------------------------------------------------------
(* the tree's check boxes: NodeItem and handleToggleFolder *)

\* a file row's toggle: setSelectedMap(prev => ({...prev, [path]: !checked}))
\* with checked = !!selectedMap[path]
toggle(sel, path) ==
    [p \in (DOMAIN sel) \cup {path} |->
        IF p = path THEN ~Sel(sel, path) ELSE sel[p]]

ToggleFile ==
    /\ \E node \in AllNodes(rootTree) :
          /\ ~node.isDir
          /\ selectedMap' = toggle(selectedMap, node.path)
          /\ lastOp' = Op("toggle", node.path, ~Sel(selectedMap, node.path))
    /\ UNCHANGED <<host, scanVars, rootTree, logs, hasScanned, genVars,
                   ruleVars>>

\* a folder row's check box: toggleFolderCheckbox, newVal = !isAllSelected
ToggleFolder ==
    /\ \E node \in AllNodes(rootTree) :
          /\ node.isDir
          /\ LET newVal == ~isAllSelected(node, selectedMap) IN
             /\ selectedMap' =
                   handleToggleFolder(rootTree, selectedMap, node.path, newVal)
             /\ lastOp' = Op("handleToggleFolder", node.path, newVal)
    /\ UNCHANGED <<host, scanVars, rootTree, logs, hasScanned, genVars,
                   ruleVars>>

---------------------------------------------------------------------------
(* GENERATE: handleGenerate as steps *)

\* exports that may append "File generated" to one scan's logs
MaxGenerated == 1

Generated(lg) == Cardinality({i \in 1..Len(lg) : lg[i][1] = "File generated"})

\* what handleGenerate awaits next, given the files still to gather
AfterGather(queue) == IF queue = <<>> THEN "write" ELSE "read"

\* the click: the button exists once hasScanned and is disabled while
\* generating; tocLines is built and the first host call is issued
GenerateStart ==
    /\ hasScanned
    /\ ~generating
    /\ Generated(logs) < MaxGenerated
    /\ generating' = TRUE
    /\ genTree' = rootTree
    /\ genSel' = selectedMap
    /\ tocLines' = buildToc(rootTree, selectedMap)
    /\ combined' = <<>>
    /\ genQueue' = GatherList(rootTree, 1, selectedMap)
    /\ genPc' = AfterGather(GatherList(rootTree, 1, selectedMap))
    /\ notices' = <<>>
    /\ written' = <<>>
    /\ lastOp' = Op("handleGenerate", <<>>, FALSE)
    /\ UNCHANGED <<host, scanVars, sessVars, ruleVars>>

\* variant in which a reported read error ends the export
GenReadReturnAborting ==
    /\ genPc = "read"
    /\ LET path == Head(genQueue) IN
       \/ /\ notices' = Append(notices, <<"showError", "Could not read", path>>)
          /\ generating' = FALSE
          /\ genPc' = "idle"
          /\ UNCHANGED combined
       \/ /\ combined' = Append(combined, path)
          /\ genPc' = AfterGather(Tail(genQueue))
          /\ UNCHANGED <<notices, generating>>
    /\ genQueue' = Tail(genQueue)
    /\ UNCHANGED <<host, scanVars, sessVars, genTree, genSel, tocLines,
                   written, lastOp, ruleVars>>

\* variant that goes on with the files selected now, not at the click
GenReadReturnLive ==
    /\ genPc = "read"
    /\ LET path == Head(genQueue)
           rest == SelectSeq(Tail(genQueue), LAMBDA p : Sel(selectedMap, p))
       IN
       /\ \/ /\ notices' = Append(notices,
                                  <<"showError", "Could not read", path>>)
             /\ UNCHANGED combined
          \/ /\ combined' = Append(combined, path)
             /\ UNCHANGED notices
       /\ genQueue' = rest
       /\ genPc' = AfterGather(rest)
    /\ UNCHANGED <<host, scanVars, sessVars, generating, genTree, genSel,
                   tocLines, written, lastOp, ruleVars>>

\* readFile(node.path, "utf8") returns: an error, or the content
GenReadReturn ==
    /\ genPc = "read"
    /\ LET path == Head(genQueue) IN
       \/ /\ notices' = Append(notices, <<"showError", "Could not read", path>>)
          /\ UNCHANGED combined
       \/ /\ combined' = Append(combined, path)
          /\ UNCHANGED notices
    /\ genQueue' = Tail(genQueue)
    /\ genPc' = AfterGather(Tail(genQueue))
    /\ UNCHANGED <<host, scanVars, sessVars, generating, genTree, genSel,
                   tocLines, written, lastOp, ruleVars>>

\* readFile throws instead of returning: the catch of handleGenerate shows
\* the error, nothing is written; then `finally`
GenReadThrows ==
    /\ genPc = "read"
    /\ notices' = Append(notices,
                         <<"showError", "Failed generating file", <<>>>>)
    /\ generating' = FALSE
    /\ genPc' = "idle"
    /\ UNCHANGED <<host, scanVars, sessVars, genTree, genSel, tocLines,
                   combined, genQueue, written, lastOp, ruleVars>>

\* variant in which a failed write is logged as generated
GenWriteReturnLogging ==
    /\ genPc = "write"
    /\ \/ /\ notices' = Append(notices,
                           <<"showError", "Failed generating file", <<>>>>)
          /\ logs' = Append(logs, Line("File generated", <<>>))
          /\ UNCHANGED written
       \/ /\ written' = Append(written, [toc |-> tocLines, body |-> combined])
          /\ logs' = Append(logs, Line("File generated", <<>>))
          /\ notices' = Append(notices, <<"showNotice", "Created", <<>>>>)
    /\ generating' = FALSE
    /\ genPc' = "idle"
    /\ UNCHANGED <<host, scanVars, rootTree, selectedMap, hasScanned, genTree,
                   genSel, tocLines, combined, genQueue, lastOp, ruleVars>>

\* writeFile returns: an error (thrown, caught) or success; then `finally`
GenWriteReturn ==
    /\ genPc = "write"
    /\ \/ /\ notices' = Append(notices,
                           <<"showError", "Failed generating file", <<>>>>)
          /\ UNCHANGED <<logs, written>>
       \/ /\ written' = Append(written, [toc |-> tocLines, body |-> combined])
          /\ logs' = Append(logs, Line("File generated", <<>>))
          /\ notices' = Append(notices, <<"showNotice", "Created", <<>>>>)
    /\ generating' = FALSE
    /\ genPc' = "idle"
    /\ UNCHANGED <<host, scanVars, rootTree, selectedMap, hasScanned, genTree,
                   genSel, tocLines, combined, genQueue, lastOp, ruleVars>>

---------------------------------------------------------------------------
(* the specifications *)

IdleGen ==
    /\ generating = FALSE
    /\ genPc = "idle"
    /\ genTree = <<>>
    /\ genSel = EmptyMap
    /\ tocLines = <<>>
    /\ combined = <<>>
    /\ genQueue = <<>>
    /\ notices = <<>>
    /\ written = <<>>

\* main.tsx line 136 imports "../rules": the build resolves it to rules.ts or
\* to rules.js, both are in src/
NoRule ==
    /\ policyFile \in {"rules.ts", "rules.js"}
    /\ policyIn = <<>>
    /\ policyOut = <<>>

\* the program after construction, on some host
Init ==
    /\ host \in Hosts
    /\ scanning = FALSE
    /\ scanPc = "idle"
    /\ visitedDirs = {}
    /\ allFiles = <<>>
    /\ stack = <<>>
    /\ dirCall = <<>>
    /\ dirCalls = <<>>
    /\ tasks = <<>>
    /\ rootTree = <<>>
    /\ selectedMap = EmptyMap
    /\ logs = <<>>
    /\ hasScanned = FALSE
    /\ IdleGen
    /\ lastOp = Op("init", <<>>, FALSE)
    /\ NoRule

Next ==
    \/ ScanStart
    \/ ReadDirReturn
    \/ ScanStep
    \/ \E k \in 1..Len(tasks) : TaskBase64Return(k)
    \/ \E k \in 1..Len(tasks) : TaskUtf8Return(k)
    \/ BatchDone
    \/ ScanFinish
    \/ ToggleFile
    \/ ToggleFolder
    \/ GenerateStart
    \/ GenReadReturn
    \/ GenReadThrows
    \/ GenWriteReturn

Spec == Init /\ [][Next]_vars

\* the scan alone: handleScan with everything it awaits
NextScan ==
    \/ ScanStart
    \/ ReadDirReturn
    \/ ScanStep
    \/ \E k \in 1..Len(tasks) : TaskBase64Return(k)
    \/ \E k \in 1..Len(tasks) : TaskUtf8Return(k)
    \/ BatchDone
    \/ ScanFinish

\* every host call returns, and a continuation that can run does run; the
\* click that starts a scan is the user's and has no fairness
FairScan ==
    /\ WF_vars(ReadDirReturn)
    /\ WF_vars(ScanStep)
    /\ \A k \in 1..MAX_CONCURRENT_READS :
          WF_vars(k <= Len(tasks) /\ TaskBase64Return(k))
    /\ \A k \in 1..MAX_CONCURRENT_READS :
          WF_vars(k <= Len(tasks) /\ TaskUtf8Return(k))
    /\ WF_vars(BatchDone)
    /\ WF_vars(ScanFinish)

SpecScanFair == Init /\ [][NextScan]_vars /\ FairScan

\* the paths of the record lists handed to buildTree
TreePaths ==
    { <<"x.ts">>, <<"a">>, <<"a", "x.ts">>, <<"a", "r.md">>,
      <<"a", "b", "x.ts">>, <<"b", "r.md">>, <<"a", "constructor">>,
      <<"constructor", "x.ts">> }

TreeRecords == [path : TreePaths, lineCount : 1..MaxLines]

RecordLists == UNION {[1..n -> TreeRecords] : n \in 0..MaxRecords}

\* handleScan with readDirectoryRecursive(".") just returned, for any
\* record list in the collector
InitTree ==
    /\ host = "plain"
    /\ scanning = TRUE
    /\ scanPc = "finish"
    /\ visitedDirs = {<<>>}
    /\ allFiles \in RecordLists
    /\ stack = <<>>
    /\ dirCall = <<>>
    /\ dirCalls = <<Call(<<>>, "listed")>>
    /\ tasks = <<>>
    /\ rootTree = <<>>
    /\ selectedMap = EmptyMap
    /\ logs = <<Line("Scanning codebase", <<>>)>>
    /\ hasScanned = FALSE
    /\ IdleGen
    /\ lastOp = Op("handleScan", <<>>, FALSE)
    /\ NoRule

\* no export has been started yet (every export ends with a notice)
NoExportYet == genPc = "idle" /\ notices = <<>>

\* one handler at a time: the check boxes are used first, then the tree is
\* exported (Spec interleaves them)
NextTree ==
    \/ ScanFinish
    \/ NoExportYet /\ ToggleFile
    \/ NoExportYet /\ ToggleFolder
    \/ GenerateStart
    \/ GenReadReturn
    \/ GenReadThrows
    \/ GenWriteReturn

SpecTree == InitTree /\ [][NextTree]_vars

\* the segments of the paths handed to shouldIncludeFile
RuleSegments ==
    {"dist", "mydist", "distro", "src", "node_modules", "x.ts", "r.md",
     "package-lock.json"}

RulePaths == UNION {[1..n -> RuleSegments] : n \in 1..MaxDepth}

InitRules ==
    /\ host = "plain"
    /\ scanning = FALSE
    /\ scanPc = "idle"
    /\ visitedDirs = {}
    /\ allFiles = <<>>
    /\ stack = <<>>
    /\ dirCall = <<>>
    /\ dirCalls = <<>>
    /\ tasks = <<>>
    /\ rootTree = <<>>
    /\ selectedMap = EmptyMap
    /\ logs = <<>>
    /\ hasScanned = FALSE
    /\ IdleGen
    /\ lastOp = Op("init", <<>>, FALSE)
    /\ policyFile \in {"rules.ts", "rules.js"}
    /\ policyIn \in RulePaths
    /\ policyOut = <<>>

\* one call of shouldIncludeFile
Include ==
    /\ policyOut = <<>>
    /\ policyOut' = <<Decide(policyFile, policyIn)>>
    /\ UNCHANGED <<host, scanVars, sessVars, genVars, lastOp, policyFile,
                   policyIn>>

SpecRules == InitRules /\ [][Include]_vars

---------------------------------------------------------------------------
(* Vocabulary of the claims *)

Range(seq) == {seq[i] : i \in 1..Len(seq)}

SeqMax(S) == CHOOSE i \in S : \A j \in S : j <= i

\* a sequence without the entries equal to x
RECURSIVE Without(_, _)
Without(seq, x) ==
    IF seq = <<>> THEN <<>>
    ELSE (IF Head(seq) = x THEN <<>> ELSE <<Head(seq)>>) \o Without(Tail(seq), x)

\* the nodes the lines of a table of contents are for, in order
TocPaths(toc) == [i \in 1..Len(toc) |-> toc[i].path]

\* the file nodes below a node (the node itself excluded)
DescendantFiles(node) ==
    {n \in Range(Preorder(node)) : ~n.isDir /\ n # node}

HasSelectedDescendant(node, sel) ==
    \E f \in DescendantFiles(node) : Sel(sel, f.path)

\* a node belongs in the table of contents
Listed(node, sel) ==
    IF node.isDir THEN HasSelectedDescendant(node, sel)
    ELSE Sel(sel, node.path)

\* the listed nodes of a forest, in preorder
RECURSIVE KeepListed(_, _)
KeepListed(nodes, sel) ==
    IF nodes = <<>> THEN <<>>
    ELSE (IF Listed(Head(nodes), sel) THEN <<Head(nodes)>> ELSE <<>>)
         \o KeepListed(Tail(nodes), sel)

\* the selected files of a forest, in preorder
RECURSIVE KeepSelectedFiles(_, _)
KeepSelectedFiles(nodes, sel) ==
    IF nodes = <<>> THEN <<>>
    ELSE (IF ~Head(nodes).isDir /\ Sel(sel, Head(nodes).path)
          THEN <<Head(nodes).path>> ELSE <<>>)
         \o KeepSelectedFiles(Tail(nodes), sel)

\* the sibling groups of a tree whose members can have lines: the top level
\* and the children of every directory that has a line
SiblingGroups(tree, toc) ==
    {tree} \cup {n.children : n \in {m \in AllNodes(tree) :
                                  m.isDir /\ m.path \in Range(TocPaths(toc))}}

BranchOf(toc, path) ==
    toc[CHOOSE i \in 1..Len(toc) : toc[i].path = path].branch

---------------------------------------------------------------------------
(* C1: in the table of contents, within every group of siblings, the last
   sibling that has a line carries the terminal glyph and every other
   sibling that has a line carries the other glyph; "last" is among the
   siblings that have a line. *)
C1_LastVisibleSiblingIsTerminal ==
    \A g \in SiblingGroups(genTree, tocLines) :
       LET shown == {i \in 1..Len(g) : g[i].path \in Range(TocPaths(tocLines))}
       IN  \A i \in shown :
              BranchOf(tocLines, g[i].path) =
                 IF i = SeqMax(shown) THEN LastBranch ELSE MidBranch

(* C2: the table of contents has exactly one line for each selected file
   and each directory with a selected descendant file, in preorder of the
   tree, each with the node's name, and no other line. *)
C2_TocListsExactlyTheSelected ==
    LET expected == KeepListed(PreorderList(genTree, 1), genSel) IN
    /\ TocPaths(tocLines) = [i \in 1..Len(expected) |-> expected[i].path]
    /\ \A i \in 1..Len(tocLines) :
          /\ tocLines[i].name = expected[i].name
          /\ tocLines[i].isDir = expected[i].isDir
          /\ tocLines[i].lineCount = expected[i].lineCount

\* an export whose table lists a directory below a directory and leaves out
\* another directory and a file
C2_Witness ==
    /\ genPc # "idle"
    /\ \E n \in AllNodes(genTree) :
          /\ n.isDir /\ Len(n.path) = 2
          /\ n.path \in Range(TocPaths(tocLines))
    /\ \E n \in AllNodes(genTree) :
          n.isDir /\ n.path \notin Range(TocPaths(tocLines))
    /\ \E n \in AllNodes(genTree) :
          ~n.isDir /\ n.path \notin Range(TocPaths(tocLines))

\* the paths whose export read failed
FailedReads ==
    {notices[i][3] : i \in {j \in 1..Len(notices) :
                               notices[j][2] = "Could not read"}}

\* the selected files of the exported tree, in preorder
ExportPlan == KeepSelectedFiles(PreorderList(genTree, 1), genSel)

\* the part of the plan the export has been through
ExportDone == SubSeq(ExportPlan, 1, Len(ExportPlan) - Len(genQueue))

\* the body holds a block for each selected file read successfully so far,
\* in preorder, and no other block
BodyIsSelectedFilesRead ==
    /\ Len(genQueue) <= Len(ExportPlan)
    /\ combined = SelectSeq(ExportDone, LAMBDA p : p \notin FailedReads)
    /\ \A i \in 1..Len(written) :
          written[i].body = combined /\ genPc = "idle"

\* the selection map before the last step, when that step deselected a file
BeforeDeselect == [selectedMap EXCEPT ![lastOp.path] = TRUE]

JustDeselected ==
    /\ lastOp.op = "toggle"
    /\ ~lastOp.val
    /\ lastOp.path \in DOMAIN selectedMap

\* p is a proper prefix of q
IsAncestor(p, q) == Len(p) < Len(q) /\ SubSeq(q, 1, Len(p)) = p

\* the directories above the path that are left without a selected file
EmptiedAncestors(path) ==
    {n.path : n \in {m \in AllNodes(rootTree) :
                        /\ m.isDir
                        /\ IsAncestor(m.path, path)
                        /\ ~HasSelectedDescendant(m, selectedMap)}}

(* C3, as stated: the body has one block for each selected file whose read
   succeeds, in preorder, and none for unselected files or directories;
   deselecting one file removes only that file's line from the table of
   contents and only its block from the body. *)
C3_DeselectRemovesOnlyThatLine ==
    /\ BodyIsSelectedFilesRead
    /\ JustDeselected =>
          /\ TocPaths(buildToc(rootTree, selectedMap)) =
                Without(TocPaths(buildToc(rootTree, BeforeDeselect)), lastOp.path)
          /\ GatherList(rootTree, 1, selectedMap) =
                Without(GatherList(rootTree, 1, BeforeDeselect), lastOp.path)

(* C3, amended: the body has one block for each selected file whose read
   succeeds, in preorder, and none for unselected files or directories;
   deselecting one file removes from the table of contents that file's line
   and the lines of the directories above it that are left without a
   selected file, and from the body only that file's block. *)
C3_DeselectRemovesLineAndEmptiedFolders ==
    /\ BodyIsSelectedFilesRead
    /\ JustDeselected =>
          /\ TocPaths(buildToc(rootTree, selectedMap)) =
                SelectSeq(TocPaths(buildToc(rootTree, BeforeDeselect)),
                          LAMBDA p : /\ p # lastOp.path
                                     /\ p \notin EmptiedAncestors(lastOp.path))
          /\ GatherList(rootTree, 1, selectedMap) =
                Without(GatherList(rootTree, 1, BeforeDeselect), lastOp.path)

\* an export that is over, of a tree in which a file the scan had selected
\* was deselected, with a block written and a read that failed
C3_Witness ==
    /\ genPc = "idle"
    /\ combined # <<>>
    /\ FailedReads # {}
    /\ \E n \in AllNodes(genTree) :
          ~n.isDir /\ Decide(policyFile, n.path) /\ ~Sel(genSel, n.path)

---------------------------------------------------------------------------
\* the file nodes of a forest, in preorder
FileNodes(tree) == SelectSeq(PreorderList(tree, 1), LAMBDA n : ~n.isDir)

\* every node's path is the names along its ancestor chain
RECURSIVE PathsFollowNames(_, _)
PathsFollowNames(nodes, prefix) ==
    \A i \in 1..Len(nodes) :
       /\ nodes[i].path = Append(prefix, nodes[i].name)
       /\ nodes[i].isDir => PathsFollowNames(nodes[i].children, nodes[i].path)

(* C4: for every list of file records, repeated paths and a path that is a
   directory prefix of another included, buildTree returns a tree with as
   many file nodes as there are records, every file node's path being the
   path of its record and the names along its ancestor chain. *)
C4_OneFileNodePerRecord ==
    scanPc = "finish" =>
       /\ ~buildTreeThrows(allFiles)
       /\ LET files == FileNodes(buildTree(allFiles)) IN
          /\ Len(files) = Len(allFiles)
          /\ {files[i].path : i \in 1..Len(files)} =
                {allFiles[k].path : k \in 1..Len(allFiles)}
          /\ PathsFollowNames(buildTree(allFiles), <<>>)

---------------------------------------------------------------------------
\* every children list of a forest, the top level included
ChildrenLists(tree) ==
    {tree} \cup {n.children : n \in {m \in AllNodes(tree) : m.isDir}}

NameBefore(a, b) == CompareChars(Chars(a.name), Chars(b.name)) < 0

DirsFirstAlphabetical(list) ==
    \A i, j \in 1..Len(list) :
       i < j =>
          /\ list[i].isDir \/ ~list[j].isDir
          /\ list[i].isDir /\ list[j].isDir => NameBefore(list[i], list[j])

(* C5, as stated: in every children list of the tree, directories precede
   files, directories are in alphabetical order of name, and files are in
   descending line-count order, files of equal line count ordered by name. *)
C5_FilesTiedByName ==
    \A list \in ChildrenLists(rootTree) :
       /\ DirsFirstAlphabetical(list)
       /\ \A i, j \in 1..Len(list) :
             i < j /\ ~list[i].isDir /\ ~list[j].isDir =>
                \/ list[i].lineCount > list[j].lineCount
                \/ /\ list[i].lineCount = list[j].lineCount
                   /\ NameBefore(list[i], list[j])

(* C5, amended: in every children list of the tree, directories precede
   files, directories are in alphabetical order of name, and files are in
   descending line-count order; files of equal line count are in no order
   of name. *)
C5_FilesByDescendingLineCount ==
    \A list \in ChildrenLists(rootTree) :
       /\ DirsFirstAlphabetical(list)
       /\ \A i, j \in 1..Len(list) :
             i < j /\ ~list[i].isDir /\ ~list[j].isDir =>
                list[i].lineCount >= list[j].lineCount

\* a children list with a directory, then a file with more lines than a
\* later one, built from records that came in another order
C5_Witness ==
    /\ lastOp.op = "scanned"
    /\ \E list \in ChildrenLists(rootTree) :
          \E i, j, k \in 1..Len(list) :
             /\ i < j /\ j < k
             /\ list[i].isDir /\ ~list[j].isDir /\ ~list[k].isDir
             /\ list[j].lineCount > list[k].lineCount
             /\ NameBefore(list[k], list[j])

---------------------------------------------------------------------------
FolderNodes == {n \in AllNodes(rootTree) : n.isDir}

(* C6: for every directory node of the current tree, the folder is shown as
   "all" iff countSelected equals countFiles and countFiles > 0, "none" iff
   countSelected is 0, "partial" otherwise, and exactly one of the three. *)
C6_FolderStateMatchesCounts ==
    \A n \in FolderNodes :
       /\ isAllSelected(n, selectedMap) <=>
             /\ countSelected(n, selectedMap) = countFiles(n)
             /\ countFiles(n) > 0
       /\ isNoneSelected(n, selectedMap) <=> countSelected(n, selectedMap) = 0
       /\ isPartial(n, selectedMap) <=>
             /\ ~(countSelected(n, selectedMap) = countFiles(n) /\ countFiles(n) > 0)
             /\ countSelected(n, selectedMap) # 0
       /\ ~(isAllSelected(n, selectedMap) /\ isNoneSelected(n, selectedMap))
       /\ ~(isAllSelected(n, selectedMap) /\ isPartial(n, selectedMap))
       /\ ~(isNoneSelected(n, selectedMap) /\ isPartial(n, selectedMap))

---------------------------------------------------------------------------
\* the folder the last step toggled
ToggledFolder == findNode(rootTree, lastOp.path)[1]

JustToggledFolder ==
    /\ lastOp.op = "handleToggleFolder"
    /\ findNode(rootTree, lastOp.path) # <<>>
    /\ DescendantFiles(ToggledFolder) # {}

(* C7: after handleToggleFolder(path, true) on a directory with at least one
   descendant file every descendant file's entry is true and the folder is
   "all"; after handleToggleFolder(path, false) every descendant file's
   entry is false and the folder is "none". *)
C7_ToggleFolderSetsEveryDescendant ==
    JustToggledFolder =>
       /\ \A f \in DescendantFiles(ToggledFolder) :
             /\ f.path \in DOMAIN selectedMap
             /\ selectedMap[f.path] = lastOp.val
       /\ lastOp.val =>
             /\ isAllSelected(ToggledFolder, selectedMap)
             /\ ~isNoneSelected(ToggledFolder, selectedMap)
             /\ ~isPartial(ToggledFolder, selectedMap)
       /\ ~lastOp.val =>
             /\ isNoneSelected(ToggledFolder, selectedMap)
             /\ ~isAllSelected(ToggledFolder, selectedMap)
             /\ ~isPartial(ToggledFolder, selectedMap)

\* a folder with a file in a subfolder, toggled on
C7_Witness ==
    /\ JustToggledFolder
    /\ lastOp.val
    /\ \E f \in DescendantFiles(ToggledFolder) : Len(f.path) > Len(lastOp.path) + 1

---------------------------------------------------------------------------
\* the path has a segment that is an ignored directory name
HasIgnoredSegment(path) ==
    \E i \in 1..Len(path) : Chars(path[i]) \in IGNORED_DIRS

HasAllowedExtension(path) ==
    \E ext \in ALLOWED_EXTENSIONS : EndsWith(Chars(path[Len(path)]), ext)

(* C8: shouldIncludeFile returns false for every path with a segment equal
   to an ignored directory name, allowed extension or not; the match is on
   whole segments, so a path with an allowed extension whose segments only
   contain an ignored name as a substring is accepted. *)
C8_IgnoredSegmentRejected ==
    policyOut # <<>> =>
       /\ HasIgnoredSegment(policyIn) => policyOut[1] = FALSE
       /\ (/\ ~HasIgnoredSegment(policyIn)
           /\ HasAllowedExtension(policyIn)
           /\ policyIn[Len(policyIn)] # "package-lock.json") =>
             policyOut[1] = TRUE

---------------------------------------------------------------------------
\* the file's base64 content is longer than the ceiling
Oversized(path) == B64Length(host, path) > MAX_BASE64_BYTES

SkipKinds ==
    {"Skipping large file", "Failed base64 read", "Error reading file",
     "Skipping file (extension)"}

(* C9: no record, no file node and no selection entry exists for a file
   whose base64 content is longer than MAX_BASE64_BYTES, whatever its
   extension; the file is skipped whole, with a log line, and no export
   holds a block of it. *)
C9_NoRecordForOversizedFile ==
    /\ \A k \in 1..Len(allFiles) : ~Oversized(allFiles[k].path)
    /\ \A n \in AllNodes(rootTree) : ~n.isDir => ~Oversized(n.path)
    /\ \A p \in DOMAIN selectedMap : ~Oversized(p)
    /\ \A p \in Range(combined) : ~Oversized(p)
    /\ \A k \in 1..Len(tasks) :
          tasks[k].pc = "done" /\ Oversized(tasks[k].path) =>
             \E i \in 1..Len(logs) :
                logs[i][1] \in SkipKinds /\ logs[i][2] = tasks[k].path

\* a finished scan that skipped an oversized file with an allowed extension
\* and one without, and kept the file whose length is the ceiling itself
C9_Witness ==
    /\ lastOp.op = "scanned"
    /\ \E i, j \in 1..Len(logs) :
          /\ logs[i][1] = "Skipping large file"
          /\ logs[j][1] = "Skipping large file"
          /\ shouldIncludeFile(logs[i][2])
          /\ ~shouldIncludeFile(logs[j][2])
    /\ \E n \in AllNodes(rootTree) :
          ~n.isDir /\ B64Length(host, n.path) = MAX_BASE64_BYTES

---------------------------------------------------------------------------
\* the host calls that have been made and have not returned
CallsInFlight ==
    dirCall
    \o SelectSeq([k \in 1..Len(tasks) |->
                     IF tasks[k].pc \in {"base64", "utf8"}
                     THEN tasks[k].path ELSE <<"-">>],
                 LAMBDA p : p # <<"-">>)
    \o (IF genPc = "read" THEN <<Head(genQueue)>> ELSE <<>>)

(* C10: in every reachable state no two host calls (readDir or readFile)
   for the same path are in flight at the same time. *)
C10_OneCallPerPathInFlight ==
    \A i, j \in 1..Len(CallsInFlight) :
       i # j => CallsInFlight[i] # CallsInFlight[j]

---------------------------------------------------------------------------
\* the directories readDir returned the children of, in this scan
ListedDirs ==
    {dirCalls[i].path : i \in {j \in 1..Len(dirCalls) :
                                  dirCalls[j].result = "listed"}}

\* the directories readDir reported an error for, in this scan
FailedDirs ==
    {dirCalls[i].path : i \in {j \in 1..Len(dirCalls) :
                                  dirCalls[j].result = "error"}}

\* the files and the subdirectories a listed directory holds
FilesIn(d) == Range(OtherPaths(d, Listing(host, d)))
DirsIn(d) == Range(ChildPaths(d, Listing(host, d), "DIRECTORY"))

RecordPaths == {allFiles[k].path : k \in 1..Len(allFiles)}

HasLine(kinds, path) ==
    \E i \in 1..Len(logs) : logs[i][1] \in kinds /\ logs[i][2] = path

ReadFailureKinds ==
    {"Failed base64 read", "Failed utf8 read", "Error reading file"}

\* the scan is through reading: every file of every listed directory has a
\* record or a log line, and a file that is neither skipped nor oversized
\* and has no failed read has its record, whatever failed elsewhere
ErrorsOmitOnlyTheirOwn ==
    scanPc = "finish" =>
       /\ \A d \in FailedDirs : HasLine({"readDir error"}, d)
       /\ \A d \in ListedDirs :
             /\ \A c \in DirsIn(d) :
                   \/ c \in ListedDirs \cup FailedDirs
                   \/ shouldSkipDir(c)
                   \/ \E i \in 1..Len(dirCalls) :
                         dirCalls[i] = Call(c, "none")
             /\ \A f \in FilesIn(d) :
                   /\ f \notin RecordPaths =>
                         HasLine(SkipKinds \cup ReadFailureKinds, f)
                   /\ (/\ ~shouldSkipFile(f)
                       /\ ~Oversized(f)
                       /\ ~HasLine(ReadFailureKinds, f)) => f \in RecordPaths

\* handleScan ends normally whenever buildTree returns, read errors or not
ScanEndsNormally ==
    (scanPc = "finish" /\ scanPc' = "idle" /\ ~buildTreeThrows(allFiles)) =>
       /\ rootTree' = buildTree(allFiles)
       /\ hasScanned'
       /\ ~scanning'
       /\ logs'[Len(logs')] = Line("Scan complete.", <<>>)
       /\ \A i \in 1..Len(logs') : logs'[i][1] # "Error scanning codebase"

(* C11: a readDir error for one directory or a readFile error for one file
   does not fail the scan: the tree is built and "Scan complete." is logged;
   the failing file or subtree is omitted and logged, and every other file
   that is not skipped, not oversized and readable still gets its record,
   siblings in the same batch included. *)
C11_ReadErrorsDoNotFailTheScan ==
    []ErrorsOmitOnlyTheirOwn /\ [][ScanEndsNormally]_vars

\* a finished scan in which a directory's readDir failed, a file's read
\* failed, and another file of that file's batch has its node
C11_Witness ==
    /\ lastOp.op = "scanned"
    /\ \E i \in 1..Len(logs) : logs[i][1] = "Scan complete."
    /\ \E i \in 1..Len(logs) : logs[i][1] = "readDir error"
    /\ \E i \in 1..Len(logs) :
          /\ logs[i][1] \in ReadFailureKinds
          /\ \E n \in AllNodes(rootTree) :
                /\ ~n.isDir
                /\ n.path # logs[i][2]
                /\ Len(n.path) = Len(logs[i][2])

---------------------------------------------------------------------------
\* the notices of the export under way, or of the last one
FatalNotice == <<"showError", "Failed generating file", <<>>>>
CreatedNotice == <<"showNotice", "Created", <<>>>>

ReadErrorNotices(path) ==
    {i \in 1..Len(notices) : notices[i] = <<"showError", "Could not read", path>>}

\* an export has run to its end
ExportOver == ~generating /\ notices # <<>>

\* every file that reported a read error has its one error notice and no
\* block, and an export that ended without the fatal notice went through
\* every selected file and wrote the output
ReadErrorsAreSkipped ==
    /\ \A p \in FailedReads :
          /\ Cardinality(ReadErrorNotices(p)) = 1
          /\ p \notin Range(combined)
    /\ (ExportOver /\ FatalNotice \notin Range(notices)) =>
          /\ genQueue = <<>>
          /\ Range(combined) \cup FailedReads = Range(ExportPlan)
          /\ Len(written) = 1
          /\ written[1].body = combined

\* the step that shows a read error leaves the export running
ReadErrorStepGoesOn ==
    (Len(notices') = Len(notices) + 1
     /\ notices'[Len(notices')][2] = "Could not read") =>
       /\ generating'
       /\ genPc' = AfterGather(genQueue')
       /\ genQueue' = Tail(genQueue)
       /\ combined' = combined
       /\ written' = written

(* C12: a readFile error reported for a selected file during export does not
   abort the export: an error is shown for that file, its block is omitted,
   every remaining selected file is still read and appended, and the output
   file is still written. *)
C12_ReadErrorDoesNotAbortExport ==
    []ReadErrorsAreSkipped /\ [][ReadErrorStepGoesOn]_vars

\* a finished export that wrote its file after a read error, with the block
\* of a file that comes after the failed one
C12_Witness ==
    /\ ExportOver
    /\ written # <<>>
    /\ \E i, j \in 1..Len(ExportPlan) :
          /\ i < j
          /\ ExportPlan[i] \in FailedReads
          /\ ExportPlan[j] \in Range(written[1].body)

---------------------------------------------------------------------------
\* a write error ends the export in failure, and a success notice stands for
\* a write that returned without error
NoticesMatchTheWrite ==
    /\ ~(FatalNotice \in Range(notices) /\ CreatedNotice \in Range(notices))
    /\ CreatedNotice \in Range(notices) <=> written # <<>>
    /\ FatalNotice \in Range(notices) => written = <<>> /\ ~generating

\* writeFile returns: the failure shows the error notice and logs nothing;
\* the success notice and the log line come with the stored file
WriteReturnStep ==
    /\ (genPc = "write" /\ genPc' = "idle" /\ written' = written) =>
          /\ notices' = Append(notices, FatalNotice)
          /\ logs' = logs
          /\ ~generating'
    /\ (CreatedNotice \in Range(notices') /\ CreatedNotice \notin Range(notices)) =>
          /\ genPc = "write"
          /\ written' = <<[toc |-> tocLines, body |-> combined]>>
          /\ logs' = Append(logs, Line("File generated", <<>>))
    /\ Generated(logs') > Generated(logs) =>
          CreatedNotice \in Range(notices') /\ genPc = "write"

(* C13: when writeFile reports an error the export ends in failure: an error
   notice is shown and neither the success notice nor the "File generated"
   log line is produced; a success notice is produced only after writeFile
   returned without error. *)
C13_WriteErrorFailsExport ==
    []NoticesMatchTheWrite /\ [][WriteReturnStep]_vars

\* an export whose reads all returned and whose write failed
C13_Witness ==
    /\ ExportOver
    /\ genQueue = <<>>
    /\ combined # <<>>
    /\ FatalNotice \in Range(notices)
    /\ written = <<>>

---------------------------------------------------------------------------
(* C14: the sort applied to every children list in buildTree is idempotent:
   sorting a children list of the tree once more returns the same list,
   files of equal line count included. *)
C14_SortIsIdempotent ==
    \A list \in ChildrenLists(rootTree) : SortNodes(list, Len(list)) = list

\* a children list with a directory and two files of one line count that
\* stand against the order of their names
C14_Witness ==
    \E list \in ChildrenLists(rootTree) :
       /\ \E i \in 1..Len(list) : list[i].isDir
       /\ \E i, j \in 1..Len(list) :
             /\ i < j
             /\ ~list[i].isDir /\ ~list[j].isDir
             /\ list[i].lineCount = list[j].lineCount
             /\ NameBefore(list[j], list[i])

---------------------------------------------------------------------------
\* the files readDir listed in this scan that are not skipped, not oversized
\* and had no read reported as failed
EligibleFiles ==
    {f \in UNION {FilesIn(d) : d \in ListedDirs} :
        /\ ~shouldSkipFile(f)
        /\ ~Oversized(f)
        /\ ~HasLine(ReadFailureKinds, f)}

(* C15: after a scan the record list holds exactly one record per file that
   is not skipped, readable and not oversized, and no path occurs twice in
   it, also when a listing has duplicate entries and the reads of a batch run
   concurrently. *)
C15_OneRecordPerEligibleFile ==
    scanPc = "finish" =>
       /\ \A i, j \in 1..Len(allFiles) :
             allFiles[i].path = allFiles[j].path => i = j
       /\ EligibleFiles \subseteq RecordPaths
       /\ \A f \in RecordPaths :
             /\ f \in UNION {FilesIn(d) : d \in ListedDirs}
             /\ ~shouldSkipFile(f)
             /\ ~Oversized(f)

---------------------------------------------------------------------------
(* C16: provided every host call eventually returns, every scan eventually
   finishes, `scanning` going back to false, on every host file system,
   one with a symbolic-link loop included. *)
C16_EveryScanFinishes == scanning ~> ~scanning

---------------------------------------------------------------------------
\* the processOneFile tasks that wait for a read
InFlight == {k \in 1..Len(tasks) : tasks[k].pc \in {"base64", "utf8"}}

\* the tasks are those of one batch of the directory on top, at most
\* MAX_CONCURRENT_READS of them, and there are none outside a batch
TasksAreOneBatch ==
    /\ MAX_CONCURRENT_READS = 10
    /\ Len(tasks) <= MAX_CONCURRENT_READS
    /\ Cardinality(InFlight) <= MAX_CONCURRENT_READS
    /\ scanPc # "batch" => tasks = <<>>
    /\ scanPc = "batch" =>
          /\ stack # <<>>
          /\ dirCall = <<>>
          /\ LET fr == stack[Len(stack)] IN
             [k \in 1..Len(tasks) |-> tasks[k].path] =
                SubSeq(fr.filesToRead, fr.i - MAX_CONCURRENT_READS + 1,
                       Min(fr.i, Len(fr.filesToRead)))

\* a batch starts with no task left, and the tasks go once all have settled
BatchesFollowEachOther ==
    /\ (scanPc' = "batch" /\ scanPc # "batch") => InFlight = {} /\ tasks = <<>>
    /\ (tasks # <<>> /\ tasks' = <<>>) => InFlight = {}
    /\ (stack' # <<>> /\ Len(stack') = Len(stack)
        /\ stack'[Len(stack)].i > stack[Len(stack)].i) => InFlight = {}

(* C17: at most MAX_CONCURRENT_READS (10) file-processing tasks are in
   flight at any time, and no read of a later batch of a directory is issued
   before every task of the current batch has settled. *)
C17_BatchesOfAtMostTen ==
    []TasksAreOneBatch /\ [][BatchesFollowEachOther]_vars

\* the second batch of a directory with more than ten files, a read of it in
\* flight
C17_Witness ==
    /\ scanPc = "batch"
    /\ stack # <<>>
    /\ stack[Len(stack)].i = 2 * MAX_CONCURRENT_READS
    /\ Len(stack[Len(stack)].filesToRead) > MAX_CONCURRENT_READS
    /\ InFlight # {}

---------------------------------------------------------------------------
\* how many lines of one kind the log holds
CountLines(kind) == Cardinality({i \in 1..Len(logs) : logs[i][1] = kind})

\* while a scan runs nothing of the session before it is left: no tree, no
\* selection, and a log that starts with this scan's first line
SessionClearedWhileScanning ==
    scanning =>
       /\ rootTree = <<>>
       /\ selectedMap = EmptyMap
       /\ logs # <<>>
       /\ logs[1] = Line("Scanning codebase", <<>>)
       /\ CountLines("Scanning codebase") = 1
       /\ CountLines("Scan complete.") = 0
       /\ CountLines("Discovered") = 0
       /\ CountLines("Error scanning codebase") = 0

\* the step that logs "Scan complete." sets the selection from the records
\* alone
CompletionSelectsByRule ==
    (CountLines("Scan complete.")' = 1 /\ CountLines("Scan complete.") = 0) =>
       /\ DOMAIN selectedMap' = RecordPaths
       /\ \A p \in RecordPaths :
             selectedMap'[p] = Decide(policyFile, p)
       /\ rootTree' = buildTree(allFiles)

(* C18: a scan replaces the session wholesale: from its start until its
   completion the tree, the selection map and the logs of the scan before
   are cleared, and at completion the selection map has one entry per record
   path, with the value shouldIncludeFile gives for it, whatever was toggled
   before. *)
C18_ScanReplacesSession ==
    []SessionClearedWhileScanning /\ [][CompletionSelectsByRule]_vars

\* a scan completed after an export that had taken a selection different
\* from the one the rule gives
C18_Witness ==
    /\ lastOp.op = "scanned"
    /\ CountLines("Scan complete.") = 1
    /\ \E p \in DOMAIN selectedMap \cap DOMAIN genSel :
          genSel[p] # selectedMap[p]

---------------------------------------------------------------------------
\* a check box was clicked in this step
FileToggleStep == lastOp' # lastOp /\ lastOp'.op = "toggle"
FolderToggleStep == lastOp' # lastOp /\ lastOp'.op = "handleToggleFolder"

\* the entries of the map other than those of the given paths stay as they
\* were
OnlyChanged(paths) ==
    /\ DOMAIN selectedMap \subseteq DOMAIN selectedMap'
    /\ \A p \in DOMAIN selectedMap' \ paths :
          p \in DOMAIN selectedMap /\ selectedMap'[p] = selectedMap[p]

TogglesChangeWhatTheyName ==
    /\ FileToggleStep =>
          /\ rootTree' = rootTree
          /\ OnlyChanged({lastOp'.path})
          /\ selectedMap'[lastOp'.path] = ~Sel(selectedMap, lastOp'.path)
    /\ FolderToggleStep =>
          /\ rootTree' = rootTree
          /\ findNode(rootTree, lastOp'.path) # <<>>
          /\ OnlyChanged({f.path : f \in
                DescendantFiles(findNode(rootTree, lastOp'.path)[1])})

\* paths that are not those of a directory of the tree: of a file, of
\* nothing in it
NotFolderPaths ==
    (TreePaths \cup {<<>>, <<"zz">>}) \
       {n.path : n \in {m \in AllNodes(rootTree) : m.isDir}}

\* toggling a file twice gives the map back, and handleToggleFolder for what
\* is no directory of the tree gives the map it was handed
TogglesUndoAndIgnore ==
    /\ \A n \in AllNodes(rootTree) :
          ~n.isDir => toggle(toggle(selectedMap, n.path), n.path) = selectedMap
    /\ \A p \in NotFolderPaths : \A v \in BOOLEAN :
          handleToggleFolder(rootTree, selectedMap, p, v) = selectedMap

(* C19: toggles change only what they name: a file toggle flips that file's
   entry and leaves the others (toggling twice restores the map); a folder
   toggle changes only entries of files in that folder's subtree; neither
   changes the tree; a folder toggle for a path that is not a directory of
   the current tree changes nothing. *)
C19_TogglesChangeOnlyWhatTheyName ==
    []TogglesUndoAndIgnore /\ [][TogglesChangeWhatTheyName]_vars

\* a folder was toggled, files below it took the value, and a file outside
\* it holds the other value
C19_Witness ==
    /\ lastOp.op = "handleToggleFolder"
    /\ findNode(rootTree, lastOp.path) # <<>>
    /\ \E f \in DescendantFiles(findNode(rootTree, lastOp.path)[1]) :
          Sel(selectedMap, f.path) = lastOp.val
    /\ \E p \in DOMAIN selectedMap :
          /\ ~IsAncestor(lastOp.path, p)
          /\ selectedMap[p] # lastOp.val

---------------------------------------------------------------------------
\* the directories readDir was called for in this scan
CalledDirs == {dirCalls[i].path : i \in 1..Len(dirCalls)}

\* the path lies beneath a directory that carries a skip name
BeneathSkipDir(path) ==
    \E i \in 1..(Len(path) - 1) : path[i] \in SKIP_DIRS

\* no readDir for a directory with a skip name and nothing recorded or shown
\* beneath one; the root is the first directory listed
SkipDirsStayUnread ==
    /\ \A d \in CalledDirs : d = <<>> \/ Last(d) \notin SKIP_DIRS
    /\ \A p \in RecordPaths : ~BeneathSkipDir(p)
    /\ \A n \in AllNodes(rootTree) : ~BeneathSkipDir(n.path)
    /\ scanning => dirCalls # <<>> /\ dirCalls[1].path = <<>>

\* the match is on the whole final segment: at the end of a scan every
\* directory found in a listing under another name has had its readDir
OtherDirsAreRead ==
    scanPc = "finish" =>
       \A d \in ListedDirs : \A c \in DirsIn(d) :
          (Last(c) \notin SKIP_DIRS /\ Len(c) <= MaxPath) => c \in CalledDirs

(* C20: readDir is never issued for a directory whose final path segment is
   in SKIP_DIRS and no record has a path beneath such a directory; the root
   is always listed; the match is on the exact final segment, so a directory
   whose name only contains a skip name is still traversed. *)
C20_SkipDirsByExactFinalSegment ==
    SkipDirsStayUnread /\ OtherDirsAreRead

\* dist was skipped, and the file of mydist next to it has its record
C20_Witness ==
    /\ scanPc = "finish"
    /\ HasLine({"Skipping dir"}, <<"dist">>)
    /\ <<"mydist">> \in ListedDirs
    /\ <<"mydist", "x.ts">> \in RecordPaths
    /\ <<"dist">> \notin CalledDirs

---------------------------------------------------------------------------
(* C21: every directory node of a tree buildTree returned has at least one
   descendant file node, for any record list, so countFiles is above 0 for
   every folder and no folder without files is shown as fully selected. *)
C21_NoEmptyFolder ==
    \A n \in AllNodes(rootTree) :
       n.isDir =>
          /\ DescendantFiles(n) # {}
          /\ countFiles(n) > 0
          /\ isAllSelected(n, selectedMap) => countFiles(n) > 0

---------------------------------------------------------------------------
\* the files the table of contents of the export lists
TocFiles == {tocLines[i].path : i \in {j \in 1..Len(tocLines) :
                                          ~tocLines[j].isDir}}

\* the files the export has called readFile for, and those it still will
ReadsAttempted == Range(combined) \cup FailedReads
ReadsAhead == Range(genQueue)

\* the export reads the files its table lists: all of them once it has
\* gone through its reads, and what it writes is that table and those blocks
ExportReadsWhatItLists ==
    /\ generating => TocFiles = ReadsAttempted \cup ReadsAhead
    /\ tocLines = buildToc(genTree, genSel)
    /\ (genQueue = <<>> /\ (generating \/ written # <<>>)) =>
          TocFiles = ReadsAttempted
    /\ \A i \in 1..Len(written) :
          /\ written[i].toc = tocLines
          /\ Range(written[i].body) \cup FailedReads = TocFiles

\* a step of a check box or of a scan while an export runs leaves the export
\* as it is, and the export keeps the tree and the map it started with
ExportKeepsItsSnapshot ==
    /\ (generating /\ (selectedMap' # selectedMap \/ rootTree' # rootTree
                       \/ scanPc' # scanPc \/ logs' = <<>>)) =>
          UNCHANGED <<genTree, genSel, tocLines, combined, genQueue, written,
                      notices, generating>>
    /\ (generating /\ generating') =>
          /\ UNCHANGED <<genTree, genSel, tocLines>>
          /\ \/ genQueue' = genQueue
             \/ genQueue # <<>> /\ genQueue' = Tail(genQueue)

(* C22: an export works on the tree and the selection map as they were when
   it started: toggles of files or folders, or the reset of a scan, while
   its reads are pending do not change its output, so the files its table
   of contents lists are the files it attempts to read for the body. *)
C22_ExportWorksOnItsSnapshot ==
    []ExportReadsWhatItLists /\ [][ExportKeepsItsSnapshot]_vars

\* a file was deselected while the export still had its read ahead
C22_Witness ==
    /\ genPc = "read"
    /\ lastOp.op = "toggle"
    /\ ~lastOp.val
    /\ lastOp.path \in Range(Tail(genQueue))
    /\ lastOp.path \in TocFiles
    /\ ~Sel(selectedMap, lastOp.path)

=============================================================================
